---- MODULE Spec2Model ----
(***************************************************************************)
(* alphahub: the SimpleFSM engine (_fsm.py) and the Connection protocol    *)
(* state machine built on it (_connection.py), as an asyncio program.      *)
(*                                                                         *)
(* The Connection object is the record `self`.  A call of start() is a     *)
(* run loop l with a program counter pc[l]: "idle" (no call of start() in  *)
(* progress), "top" (at `while self.running`), or the await a handler is   *)
(* suspended on.  Code between two awaits is one step: asyncio runs        *)
(* nothing else meanwhile, so no other coroutine moves while a loop is at  *)
(* "top".  Only the clock advances at any moment.                          *)
(***************************************************************************)
EXTENDS Integers, Sequences, FiniteSets, TLC

VARIABLES
    self,       \* the Connection object's fields
    now,        \* datetime.now(), in seconds
    pc,         \* per run loop: where the call of start() stands
    wake,       \* per run loop: deadline of the timed await (recv timeout, sleep)
    todo,       \* per run loop: SUBSCRIBING's list of ids still to join (head = current)
    tasks,      \* tasks created for _handle_signal_message, not yet finished
    received,   \* what wait_for(ws.recv()) delivered in the step just taken, if it was one
    joins,      \* phx_join frames sent per id in the current pass of SUBSCRIBING
    nSignals,   \* new_signals frames routed so far
    nCalls,     \* invocations of the on_signal callback so far
    crit,       \* a CRITICAL record has been logged by fatal()
    prev,       \* the state tag of the handler that ended last ("" before any has)
    ctor        \* the constructor call: its arguments and the exception it raised

vars == <<self, now, pc, wake, todo, tasks, received, joins, nSignals, nCalls, crit, prev, ctor>>

----------------------------------------------------------------------------
(* Bounds of the model *)

MaxSignals == 1
MaxLoops == 2

Loops == 1..MaxLoops

(* Program constants, in seconds *)

DEFAULT_ERROR_WAIT_TIME == 5
OAUTH_TIMEOUT == 1740
HEARTBEAT_INTERVAL == 15
SUBSCRIPTION_TIMEOUT == 15
RECEIVE_TIMEOUT_SECONDS == 5
DatetimeMin == 0

\* The instants the clock is observed at: before and after a receive timeout
\* that began at 0, and when a token obtained at 0 expires (every heartbeat
\* deadline set before has passed by then).
Instants == {0, RECEIVE_TIMEOUT_SECONDS, OAUTH_TIMEOUT}

----------------------------------------------------------------------------
(* Data *)

\* The algorithm id lists a caller constructs the Connection with, and an id
\* the caller never asked for.
AlgoIdLists == {<<14>>, <<14, 16>>}
AllIds == {14, 16, 17}

\* The credentials a caller constructs the Connection with: a usable value,
\* the empty string, or None.
Emails == {"user@example.com", "", "None"}
Passwords == {"secret", "", "None"}

\* What the caller passes for on_signal: a plain function or a coroutine
\* function.
OnSignalKinds == {"function", "coroutine"}

Range(s) == {s[i] : i \in 1..Len(s)}

\* f'algorithms:{id}' formats the id in decimal; int(...) parses it back and
\* raises ValueError on anything that is not a number.
StrOf(id) == CASE id = 14 -> "14" [] id = 16 -> "16" [] id = 17 -> "17"
IsInt(str) == str \in {"14", "16", "17"}
IntOf(str) == CASE str = "14" -> 14 [] str = "16" -> 16 [] str = "17" -> 17

\* A decoded inbound frame [joinRef, ref, channel, method, info]; the channel
\* is kept as <<prefix, remainder>>.
Frame(prefix, rest, method, status, payload) ==
    [channel |-> <<prefix, rest>>, method |-> method, status |-> status, payload |-> payload]

NoFrame == Frame("", "", "", "", "")

Frames ==
    {Frame("algorithms:", d, "phx_reply", "ok", "") : d \in {"14", "16", "17"}}
    \cup {Frame("algorithms:", "14", "phx_reply", "error", ""),
          Frame("algorithms:", "14", "new_signals", "", "p1"),
          Frame("algorithms:", "17", "new_signals", "", "p2")}
    \cup {Frame("algorithms:", "14", "phx_close", "", ""),
          Frame("algorithms:", "14", "presence_diff", "", ""),
          Frame("algorithms:", "lobby", "phx_reply", "ok", ""),
          Frame("phoenix", "", "phx_reply", "ok", ""),
          Frame("phoenix", "", "phx_reply", "error", ""),
          Frame("phoenix", "", "presence_diff", "", ""),
          Frame("room:", "1", "phx_reply", "ok", "")}

\* What `await wait_for(self.ws.recv(), RECEIVE_TIMEOUT_SECONDS)` can end with.
Outcome(kind, f) == [kind |-> kind, frame |-> f]
RecvOutcomes ==
    {Outcome("timeout", NoFrame), Outcome("closed", NoFrame), Outcome("error", NoFrame)}
    \cup {Outcome("frame", f) : f \in Frames}

\* What the session endpoint can answer: a body with both tokens, a body with
\* no renew_token, or no usable body at all.
AuthResponses ==
    {[kind |-> "ok", token |-> "tokA", renew_token |-> "renA"],
     [kind |-> "ok", token |-> "tokB", renew_token |-> "renB"],
     [kind |-> "no_renew_token", token |-> "tokB", renew_token |-> "None"],
     [kind |-> "no_data", token |-> "None", renew_token |-> "None"]}

\* How a handler ends: a normal return, `raise ExceptionState(state)`, or any
\* other exception.
NoExc == [kind |-> "none", state |-> ""]
ExceptionState(s) == [kind |-> "ExceptionState", state |-> s]
AnyException == [kind |-> "Exception", state |-> ""]

Result(s, exc, spawn) == [self |-> s, exc |-> exc, spawn |-> spawn]

----------------------------------------------------------------------------
(* SimpleFSM: what start() does with the way a handler ended *)

HandlerTags ==
    {"INIT", "AUTHENTICATED", "CONNECTED", "SUBSCRIBING", "RECEIVING", "STALE",
     "RECONNECTING", "ERROR"}

OnReturn(s) == [s EXCEPT !.last_exception = "None"]

OnExceptionState(s, target) == [s EXCEPT !.last_exception = "None", !.state = target]

OnException(s) == [s EXCEPT !.last_exception = "Exception", !.state = "ERROR"]

Finish(r) ==
    CASE r.exc.kind = "none" -> OnReturn(r.self)
      [] r.exc.kind = "ExceptionState" -> OnExceptionState(r.self, r.exc.state)
      [] OTHER -> OnException(r.self)

\* A stop() that also rewinds the machine.
stop_rewinding(s) == [s EXCEPT !.running = FALSE, !.state = "INIT"]

stop(s) == [s EXCEPT !.running = FALSE]

\* A fatal() that only logs.
fatal_logging_only(s) == s

fatal(s) == stop(s)

----------------------------------------------------------------------------
(* Connection: construction and the pure parts of the handlers *)

NewConnection(ids, on_signal) ==
    [state |-> "INIT", running |-> FALSE, last_exception |-> "None",
     algo_ids |-> ids, token |-> "None", renew_token |-> "None",
     expiry |-> DatetimeMin, ws |-> "None", stale_time |-> DatetimeMin,
     _on_signal |-> on_signal,
     subscribed |-> [i \in Range(ids) |-> FALSE],
     subscription_deadline |-> DatetimeMin]

\* What the caller is left with when __init__ raises: no object.
NoConnection ==
    [state |-> "", running |-> FALSE, last_exception |-> "None",
     algo_ids |-> <<>>, token |-> "None", renew_token |-> "None",
     expiry |-> DatetimeMin, ws |-> "None", stale_time |-> DatetimeMin,
     _on_signal |-> "None",
     subscribed |-> [i \in {} |-> FALSE],
     subscription_deadline |-> DatetimeMin]

\* A constructor that validates the credentials only.
Connection_any_ids(email, password, algo_ids, on_signal) ==
    IF email \in {"", "None"}
    THEN [raised |-> "ValueError", obj |-> NoConnection]
    ELSE IF password \in {"", "None"}
    THEN [raised |-> "ValueError", obj |-> NoConnection]
    ELSE [raised |-> "None", obj |-> NewConnection(algo_ids, on_signal)]

\* Connection(email, password, algo_ids, on_signal): `not x` is true of the
\* empty string, of None and of the empty list.
Connection(email, password, algo_ids, on_signal) ==
    IF email \in {"", "None"}
    THEN [raised |-> "ValueError", obj |-> NoConnection]
    ELSE IF password \in {"", "None"}
    THEN [raised |-> "ValueError", obj |-> NoConnection]
    ELSE IF algo_ids = <<>>
    THEN [raised |-> "ValueError", obj |-> NoConnection]
    ELSE [raised |-> "None", obj |-> NewConnection(algo_ids, on_signal)]

_close_ws(s) == IF s.ws # "None" THEN [s EXCEPT !.ws = "None"] ELSE s

state_INIT(s, t, resp) ==
    LET s0 == _close_ws(s)
    IN  CASE resp.kind = "no_data" -> Result(s0, AnyException, <<>>)
          [] resp.kind = "no_renew_token" ->
                Result([s0 EXCEPT !.token = resp.token], AnyException, <<>>)
          [] OTHER ->
                Result([s0 EXCEPT !.token = resp.token,
                                  !.renew_token = resp.renew_token,
                                  !.expiry = t + OAUTH_TIMEOUT,
                                  !.state = "AUTHENTICATED"], NoExc, <<>>)

state_AUTHENTICATED(s, connected) ==
    IF connected
    THEN Result([s EXCEPT !.ws = "ws", !.state = "CONNECTED"], NoExc, <<>>)
    ELSE Result(s, AnyException, <<>>)

\* A CONNECTED handler that keeps the flags of the previous transport.
state_CONNECTED_keeping(s, t) ==
    Result([s EXCEPT !.subscription_deadline = t + SUBSCRIPTION_TIMEOUT,
                     !.state = "SUBSCRIBING"], NoExc, <<>>)

state_CONNECTED(s, t) ==
    Result([s EXCEPT !.subscribed = [i \in Range(s.algo_ids) |-> FALSE],
                     !.subscription_deadline = t + SUBSCRIPTION_TIMEOUT,
                     !.state = "SUBSCRIBING"], NoExc, <<>>)

\* A RECONNECTING handler that does not close the transport it gives up.
state_RECONNECTING_keeping(s, t) ==
    IF t < s.expiry
    THEN Result([s EXCEPT !.state = "AUTHENTICATED"], NoExc, <<>>)
    ELSE Result([s EXCEPT !.state = "INIT"], NoExc, <<>>)

state_RECONNECTING(s, t) ==
    LET s0 == _close_ws(s)
    IN  IF t < s0.expiry
        THEN Result([s0 EXCEPT !.state = "AUTHENTICATED"], NoExc, <<>>)
        ELSE Result([s0 EXCEPT !.state = "INIT"], NoExc, <<>>)

\* An ERROR handler that gives up instead of starting over.
state_ERROR_giving_up(s) == Result(_close_ws([s EXCEPT !.state = "DONE"]), NoExc, <<>>)

\* SimpleFSM.state_ERROR alone: the transport is kept.
state_ERROR_inherited(s) == Result([s EXCEPT !.state = "INIT"], NoExc, <<>>)

\* SimpleFSM.state_ERROR after its sleep, then Connection.state_ERROR's cleanup.
state_ERROR(s) == Result(_close_ws([s EXCEPT !.state = "INIT"]), NoExc, <<>>)

\* _send up to its await: the liveness deadline is moved before the frame is
\* handed to the transport; without a transport self.ws.send raises.
_send(s, t) ==
    LET s1 == [s EXCEPT !.stale_time = t + HEARTBEAT_INTERVAL]
    IN  IF s1.ws = "None" THEN Result(s1, AnyException, <<>>) ELSE Result(s1, NoExc, <<>>)

Subscribe(sub, algo_id) ==
    [i \in DOMAIN sub \cup {algo_id} |-> IF i = algo_id THEN TRUE ELSE sub[i]]

\* A router that takes phx_close for the end of the subscription.
Route_close_unsubscribes(s, f) ==
    IF f.channel[1] = "algorithms:"
    THEN IF ~IsInt(f.channel[2])
         THEN Result(s, AnyException, <<>>)
         ELSE LET algo_id == IntOf(f.channel[2])
              IN  CASE f.method = "phx_reply" ->
                        IF f.status = "ok"
                        THEN Result([s EXCEPT !.subscribed = Subscribe(@, algo_id)], NoExc, <<>>)
                        ELSE Result(s, ExceptionState("ERROR"), <<>>)
                    [] f.method = "new_signals" ->
                        Result(s, NoExc, <<[id |-> algo_id, info |-> f.payload, st |-> "scheduled"]>>)
                    [] f.method = "phx_close" ->
                        Result([s EXCEPT !.subscribed =
                                    [i \in DOMAIN @ |-> IF i = algo_id THEN FALSE ELSE @[i]]],
                               NoExc, <<>>)
                    [] OTHER -> Result(s, NoExc, <<>>)
    ELSE IF f.channel[1] = "phoenix"
    THEN IF f.method = "phx_reply"
         THEN IF f.status # "ok"
              THEN Result(s, ExceptionState("ERROR"), <<>>)
              ELSE Result(s, NoExc, <<>>)
         ELSE Result(s, NoExc, <<>>)
    ELSE Result(s, NoExc, <<>>)

\* A router that takes any subscription reply for a confirmation.
Route_any_reply(s, f) ==
    IF f.channel[1] = "algorithms:" /\ IsInt(f.channel[2]) /\ f.method = "phx_reply"
    THEN Result([s EXCEPT !.subscribed = Subscribe(@, IntOf(f.channel[2]))], NoExc, <<>>)
    ELSE IF f.channel[1] = "algorithms:" /\ IsInt(f.channel[2]) /\ f.method = "new_signals"
    THEN Result(s, NoExc,
                <<[id |-> IntOf(f.channel[2]), info |-> f.payload, st |-> "scheduled"]>>)
    ELSE Result(s, NoExc, <<>>)

\* _recv after a frame has arrived: decode and route it.
Route(s, f) ==
    IF f.channel[1] = "algorithms:"
    THEN IF ~IsInt(f.channel[2])
         THEN Result(s, AnyException, <<>>)
         ELSE LET algo_id == IntOf(f.channel[2])
              IN  CASE f.method = "phx_reply" ->
                        IF f.status = "ok"
                        THEN Result([s EXCEPT !.subscribed = Subscribe(@, algo_id)], NoExc, <<>>)
                        ELSE Result(s, ExceptionState("ERROR"), <<>>)
                    [] f.method = "new_signals" ->
                        Result(s, NoExc, <<[id |-> algo_id, info |-> f.payload, st |-> "scheduled"]>>)
                    [] f.method = "phx_close" -> Result(s, NoExc, <<>>)
                    [] OTHER -> Result(s, NoExc, <<>>)
    ELSE IF f.channel[1] = "phoenix"
    THEN IF f.method = "phx_reply"
         THEN IF f.status # "ok"
              THEN Result(s, ExceptionState("ERROR"), <<>>)
              ELSE Result(s, NoExc, <<>>)
         ELSE Result(s, NoExc, <<>>)
    ELSE Result(s, NoExc, <<>>)

\* A _recv that lets the closed transport surface as an ordinary failure.
_recv_closed_uncaught(s, o) ==
    CASE o.kind = "timeout" -> Result(s, NoExc, <<>>)
      [] o.kind = "closed" -> Result(s, AnyException, <<>>)
      [] o.kind = "error" -> Result(s, AnyException, <<>>)
      [] OTHER -> Route(s, o.frame)

_recv(s, o) ==
    CASE o.kind = "timeout" -> Result(s, NoExc, <<>>)
      [] o.kind = "closed" -> Result(s, ExceptionState("RECONNECTING"), <<>>)
      [] o.kind = "error" -> Result(s, AnyException, <<>>)
      [] OTHER -> Route(s, o.frame)

AllSubscribed(s) == \A i \in DOMAIN s.subscribed : s.subscribed[i]

\* [id for id, subscribed in self.subscribed.items() if not subscribed]: the
\* dict keeps the order of algo_ids; an id added by a reply is always true.
Unsubscribed(s) ==
    LET F[i \in 0..Len(s.algo_ids)] ==
            IF i = 0 THEN <<>>
            ELSE IF ~s.subscribed[s.algo_ids[i]] /\ s.algo_ids[i] \notin Range(F[i - 1])
                 THEN Append(F[i - 1], s.algo_ids[i])
                 ELSE F[i - 1]
    IN  F[Len(s.algo_ids)]

\* A RECEIVING that takes every receive timeout for a missed deadline.
state_RECEIVING_stale_on_timeout(s, t, o) ==
    LET r == _recv(s, o)
    IN  IF r.exc.kind # "none" THEN r
        ELSE IF t >= r.self.stale_time \/ o.kind = "timeout"
             THEN [r EXCEPT !.self.state = "STALE"]
             ELSE r

state_RECEIVING(s, t, o) ==
    LET r == _recv(s, o)
    IN  IF r.exc.kind # "none" THEN r
        ELSE IF t >= r.self.stale_time
             THEN [r EXCEPT !.self.state = "STALE"]
             ELSE r

\* A STALE handler that also forgets the subscriptions.
state_STALE_resetting(s, sent) ==
    IF sent
    THEN Result([s EXCEPT !.state = "RECEIVING",
                          !.subscribed = [i \in Range(s.algo_ids) |-> FALSE]], NoExc, <<>>)
    ELSE Result(s, AnyException, <<>>)

state_STALE(s, sent) ==
    IF sent
    THEN Result([s EXCEPT !.state = "RECEIVING"], NoExc, <<>>)
    ELSE Result(s, AnyException, <<>>)

----------------------------------------------------------------------------
(* One stretch of handler code, from one await to the next: the object as   *)
(* the stretch leaves it, how the handler ended (when pc is "top"), the     *)
(* tasks it created, where the loop stands next, and the join it sent.      *)

Step(r, p, ids, join) ==
    [self |-> r.self, exc |-> r.exc, spawn |-> r.spawn, pc |-> p, todo |-> ids, join |-> join]

\* `await self._recv()` up to its await: self.ws.recv() needs a transport.
BeginRecv(r, p, ids) ==
    IF r.self.ws = "None"
    THEN Step(Result(r.self, AnyException, r.spawn), "top", <<>>, <<>>)
    ELSE Step(r, p, ids, <<>>)

\* state_SUBSCRIBING from the head of its for loop with the ids `lst` left to
\* join (empty: at the `while not all(...)` test), up to the await in _send.
SubscribeNext(r, lst, t) ==
    IF lst = <<>> /\ AllSubscribed(r.self)
    THEN Step(Result([r.self EXCEPT !.state = "RECEIVING"], NoExc, r.spawn), "top", <<>>, <<>>)
    ELSE LET ids == IF lst = <<>> THEN Unsubscribed(r.self) ELSE lst
             snd == _send(r.self, t)
         IN  IF snd.exc.kind # "none"
             THEN Step(Result(snd.self, snd.exc, r.spawn), "top", <<>>, <<>>)
             ELSE Step(Result(snd.self, NoExc, r.spawn), "sub_send", ids, <<Head(ids)>>)

\* A SUBSCRIBING that goes on to the next id after any receive.
SubscribingRecv_no_wait(s, lst, t, o) ==
    LET r == _recv(s, o)
    IN  IF r.exc.kind # "none" THEN Step(r, "top", <<>>, <<>>)
        ELSE IF r.self.state # "SUBSCRIBING" THEN Step(r, "top", <<>>, <<>>)
        ELSE SubscribeNext(r, Tail(lst), t)

\* state_SUBSCRIBING when `await self._recv()` ends with outcome o.
SubscribingRecv(s, lst, t, o) ==
    LET r == _recv(s, o)
    IN  IF r.exc.kind # "none" THEN Step(r, "top", <<>>, <<>>)
        ELSE IF r.self.state # "SUBSCRIBING" THEN Step(r, "top", <<>>, <<>>)
        ELSE IF r.self.subscribed[Head(lst)] THEN SubscribeNext(r, Tail(lst), t)
        ELSE BeginRecv(r, "sub_recv", lst)

Timed == {"sub_recv", "rcv_recv", "err_sleep"}

Timeout(p) == IF p = "err_sleep" THEN DEFAULT_ERROR_WAIT_TIME ELSE RECEIVE_TIMEOUT_SECONDS

MaxJoins == 2

CountJoin(j, join) ==
    IF join = <<>> THEN j
    ELSE [j EXCEPT ![join[1]] = IF @ < MaxJoins THEN @ + 1 ELSE @]

NoJoins == [i \in AllIds |-> 0]

\* Run loop l takes the step st: start() applies its try/except when the
\* handler has ended.
Take(l, st, j, tag) ==
    /\ prev' = IF st.pc = "top" THEN tag ELSE prev
    /\ self' = IF st.pc = "top" THEN Finish(st) ELSE st.self
    /\ pc' = [pc EXCEPT ![l] = st.pc]
    /\ todo' = [todo EXCEPT ![l] = st.todo]
    /\ wake' = [wake EXCEPT ![l] = IF st.pc \in Timed THEN now + Timeout(st.pc) ELSE 0]
    /\ tasks' = tasks \o st.spawn
    /\ nSignals' = nSignals + Len(st.spawn)
    /\ joins' = CountJoin(j, st.join)

\* No run loop is between a handler's return and the next await.
Quiet == \A l \in Loops : pc[l] # "top"

NoOutcome == Outcome("none", NoFrame)

\* The peer's frames are limited by the bound on new_signals frames.
Admissible(o) ==
    (o.kind = "frame" /\ o.frame.method = "new_signals") => nSignals < MaxSignals

----------------------------------------------------------------------------
(* The state after construction *)

\* The caller has evaluated Connection(email, password, algo_ids, on_signal).
Constructed(email, password, algo_ids, on_signal) ==
    LET c == Connection(email, password, algo_ids, on_signal)
    IN  /\ ctor = [email |-> email, password |-> password, algo_ids |-> algo_ids,
                   on_signal |-> on_signal, raised |-> c.raised]
        /\ self = c.obj

\* A Connection constructed as __main__ does, with credentials that were found.
Init ==
    /\ \E ids \in AlgoIdLists, on_signal \in OnSignalKinds :
          Constructed("user@example.com", "secret", ids, on_signal)
    /\ now = 0
    /\ pc = [l \in Loops |-> "idle"]
    /\ wake = [l \in Loops |-> 0]
    /\ todo = [l \in Loops |-> <<>>]
    /\ tasks = <<>>
    /\ received = NoOutcome
    /\ joins = NoJoins
    /\ nSignals = 0
    /\ nCalls = 0
    /\ crit = FALSE
    /\ prev = ""

----------------------------------------------------------------------------
(* SimpleFSM.start and the handlers it calls *)

AtTop(l, tag) == pc[l] = "top" /\ self.running /\ self.state = tag

\* A caller that holds a Connection awaits start(); the lowest free slot
\* stands for the call.
start(l) ==
    /\ ctor.raised = "None"
    /\ pc[l] = "idle"
    /\ \A k \in Loops : k < l => pc[k] # "idle"
    /\ Quiet
    /\ IF self.running
       THEN UNCHANGED vars
       ELSE /\ self' = [self EXCEPT !.running = TRUE]
            /\ pc' = [pc EXCEPT ![l] = "top"]
            /\ received' = NoOutcome
            /\ UNCHANGED <<ctor, now, wake, todo, tasks, joins, nSignals, nCalls, crit, prev>>

\* The caller of __main__: start() is awaited, so it is called again only
\* after the previous call has returned.
StartAwaited(l) == (\A k \in Loops : pc[k] = "idle") /\ start(l)

\* `while self.running` fails: start() returns.
Return(l) ==
    /\ pc[l] = "top"
    /\ ~self.running
    /\ pc' = [pc EXCEPT ![l] = "idle"]
    /\ received' = NoOutcome
    /\ UNCHANGED <<ctor, self, now, wake, todo, tasks, joins, nSignals, nCalls, crit, prev>>

\* getattr finds no state_<tag> method: fatal().
NoHandler(l) ==
    /\ pc[l] = "top"
    /\ self.running
    /\ self.state \notin HandlerTags
    /\ self' = fatal(self)
    /\ crit' = TRUE
    /\ received' = NoOutcome
    /\ UNCHANGED <<ctor, now, pc, wake, todo, tasks, joins, nSignals, nCalls, prev>>

Do_INIT(l) ==
    /\ AtTop(l, "INIT")
    /\ \E resp \in AuthResponses :
          Take(l, Step(state_INIT(self, now, resp), "top", <<>>, <<>>), joins, "INIT")
    /\ received' = NoOutcome
    /\ UNCHANGED <<ctor, now, nCalls, crit>>

Do_AUTHENTICATED(l) ==
    /\ AtTop(l, "AUTHENTICATED")
    /\ Take(l, Step(Result(self, NoExc, <<>>), "connect", <<>>, <<>>), joins, "AUTHENTICATED")
    /\ received' = NoOutcome
    /\ UNCHANGED <<ctor, now, nCalls, crit>>

Connect(l) ==
    /\ pc[l] = "connect"
    /\ Quiet
    /\ \E connected \in BOOLEAN :
          Take(l, Step(state_AUTHENTICATED(self, connected), "top", <<>>, <<>>), joins, "AUTHENTICATED")
    /\ received' = NoOutcome
    /\ UNCHANGED <<ctor, now, nCalls, crit>>

Do_CONNECTED(l) ==
    /\ AtTop(l, "CONNECTED")
    /\ Take(l, Step(state_CONNECTED(self, now), "top", <<>>, <<>>), joins, "CONNECTED")
    /\ received' = NoOutcome
    /\ UNCHANGED <<ctor, now, nCalls, crit>>

Do_SUBSCRIBING(l) ==
    /\ AtTop(l, "SUBSCRIBING")
    /\ Take(l, SubscribeNext(Result(self, NoExc, <<>>), <<>>, now), NoJoins, "SUBSCRIBING")
    /\ received' = NoOutcome
    /\ UNCHANGED <<ctor, now, nCalls, crit>>

\* `await self.ws.send(msg)` of a join ends.
JoinSent(l) ==
    /\ pc[l] = "sub_send"
    /\ Quiet
    /\ \E sent \in BOOLEAN :
          Take(l, IF sent
                  THEN BeginRecv(Result(self, NoExc, <<>>), "sub_recv", todo[l])
                  ELSE Step(Result(self, AnyException, <<>>), "top", <<>>, <<>>), joins, "SUBSCRIBING")
    /\ received' = NoOutcome
    /\ UNCHANGED <<ctor, now, nCalls, crit>>

\* `await self._recv()` in state_SUBSCRIBING ends.
SubRecv(l) ==
    /\ pc[l] = "sub_recv"
    /\ Quiet
    /\ \E o \in RecvOutcomes :
          /\ Admissible(o)
          /\ o.kind = "timeout" => now >= wake[l]
          /\ Take(l, SubscribingRecv(self, todo[l], now, o), joins, "SUBSCRIBING")
          /\ received' = o
    /\ UNCHANGED <<ctor, now, nCalls, crit>>

Do_RECEIVING(l) ==
    /\ AtTop(l, "RECEIVING")
    /\ Take(l, BeginRecv(Result(self, NoExc, <<>>), "rcv_recv", <<>>), joins, "RECEIVING")
    /\ received' = NoOutcome
    /\ UNCHANGED <<ctor, now, nCalls, crit>>

\* `await self._recv()` in state_RECEIVING ends.
Recv(l) ==
    /\ pc[l] = "rcv_recv"
    /\ Quiet
    /\ \E o \in RecvOutcomes :
          /\ Admissible(o)
          /\ o.kind = "timeout" => now >= wake[l]
          /\ Take(l, Step(state_RECEIVING(self, now, o), "top", <<>>, <<>>), joins, "RECEIVING")
          /\ received' = o
    /\ UNCHANGED <<ctor, now, nCalls, crit>>

Do_STALE(l) ==
    /\ AtTop(l, "STALE")
    /\ LET snd == _send(self, now)
       IN  Take(l, Step(snd, IF snd.exc.kind = "none" THEN "stale_send" ELSE "top", <<>>, <<>>), joins, "STALE")
    /\ received' = NoOutcome
    /\ UNCHANGED <<ctor, now, nCalls, crit>>

\* `await self.ws.send(...)` of the heartbeat ends.
HeartbeatSent(l) ==
    /\ pc[l] = "stale_send"
    /\ Quiet
    /\ \E sent \in BOOLEAN :
          Take(l, Step(state_STALE(self, sent), "top", <<>>, <<>>), joins, "STALE")
    /\ received' = NoOutcome
    /\ UNCHANGED <<ctor, now, nCalls, crit>>

Do_RECONNECTING(l) ==
    /\ AtTop(l, "RECONNECTING")
    /\ Take(l, Step(state_RECONNECTING(self, now), "top", <<>>, <<>>), joins, "RECONNECTING")
    /\ received' = NoOutcome
    /\ UNCHANGED <<ctor, now, nCalls, crit>>

\* state_ERROR logs and goes to sleep.
Do_ERROR(l) ==
    /\ AtTop(l, "ERROR")
    /\ Take(l, Step(Result(self, NoExc, <<>>), "err_sleep", <<>>, <<>>), joins, "ERROR")
    /\ received' = NoOutcome
    /\ UNCHANGED <<ctor, now, nCalls, crit>>

\* sleep(DEFAULT_ERROR_WAIT_TIME) is over.
Woken(l) ==
    /\ pc[l] = "err_sleep"
    /\ Quiet
    /\ now >= wake[l]
    /\ Take(l, Step(state_ERROR(self), "top", <<>>, <<>>), joins, "ERROR")
    /\ received' = NoOutcome
    /\ UNCHANGED <<ctor, now, nCalls, crit>>

----------------------------------------------------------------------------
(* The surroundings: other coroutines, the clock *)

\* Some coroutine or callback calls stop().
Stop ==
    /\ ctor.raised = "None"
    /\ Quiet
    /\ self' = stop(self)
    /\ received' = NoOutcome
    /\ UNCHANGED <<ctor, now, pc, wake, todo, tasks, joins, nSignals, nCalls, crit, prev>>

Remove(seq, i) == SubSeq(seq, 1, i - 1) \o SubSeq(seq, i + 1, Len(seq))

\* The event loop runs a task of _handle_signal_message: the callback is
\* invoked.  A plain function is called in place and has returned before
\* anything else runs; a coroutine function is awaited and may suspend.
_handle_signal_message(i) ==
    /\ Quiet
    /\ i \in 1..Len(tasks)
    /\ tasks[i].st = "scheduled"
    /\ nCalls' = nCalls + 1
    /\ \/ tasks' = Remove(tasks, i)
       \/ /\ self._on_signal = "coroutine"
          /\ tasks' = [tasks EXCEPT ![i].st = "running"]
    /\ received' = NoOutcome
    /\ UNCHANGED <<ctor, self, now, pc, wake, todo, joins, nSignals, crit, prev>>

\* A suspended callback finishes.
CallbackDone(i) ==
    /\ Quiet
    /\ i \in 1..Len(tasks)
    /\ tasks[i].st = "running"
    /\ tasks' = Remove(tasks, i)
    /\ received' = NoOutcome
    /\ UNCHANGED <<ctor, self, now, pc, wake, todo, joins, nSignals, nCalls, crit, prev>>

\* The clock is seen to have reached instant t.
TickTo(t) ==
    /\ t > now
    /\ now' = t
    /\ received' = NoOutcome
    /\ UNCHANGED <<ctor, self, pc, wake, todo, tasks, joins, nSignals, nCalls, crit, prev>>

\* Outside code assigns the public `state` property a tag no handler exists for.
SetState ==
    /\ ctor.raised = "None"
    /\ Quiet
    /\ self.state # "DONE"
    /\ self' = [self EXCEPT !.state = "DONE"]
    /\ received' = NoOutcome
    /\ UNCHANGED <<ctor, now, pc, wake, todo, tasks, joins, nSignals, nCalls, crit, prev>>

----------------------------------------------------------------------------
(* Specifications *)

Steps(l) ==
    \/ Do_INIT(l)
    \/ Do_AUTHENTICATED(l)
    \/ Connect(l)
    \/ Do_CONNECTED(l)
    \/ Do_SUBSCRIBING(l)
    \/ JoinSent(l)
    \/ SubRecv(l)
    \/ Do_RECEIVING(l)
    \/ Recv(l)
    \/ Do_STALE(l)
    \/ HeartbeatSent(l)
    \/ Do_RECONNECTING(l)
    \/ Do_ERROR(l)
    \/ Woken(l)

Callbacks ==
    \/ \E i \in 1..MaxSignals : _handle_signal_message(i)
    \/ \E i \in 1..MaxSignals : CallbackDone(i)

\* start() awaited by its caller, as in __main__.
Next ==
    \/ \E l \in Loops : StartAwaited(l)
    \/ \E l \in Loops : Return(l)
    \/ \E l \in Loops : Steps(l)
    \/ Stop
    \/ Callbacks
    \/ \E t \in Instants : TickTo(t)

Spec == Init /\ [][Next]_vars

\* start() called whenever the object lets it in, on a Connection for one
\* algorithm, with the clock observed at 0 and a token lifetime later; the
\* callbacks' tasks are left waiting.
InitOne == Init /\ self.algo_ids = <<14>> /\ self._on_signal = "function"

NextReentrant ==
    \/ \E l \in Loops : start(l)
    \/ \E l \in Loops : Return(l)
    \/ \E l \in Loops : Steps(l)
    \/ Stop
    \/ TickTo(OAUTH_TIMEOUT)

SpecReentrant == InitOne /\ [][NextReentrant]_vars

\* With outside code assigning `state`.
NextSetState ==
    \/ Next
    \/ SetState
    \/ \E l \in Loops : NoHandler(l)

SpecSetState == Init /\ [][NextSetState]_vars

\* One awaited start() on a Connection for one algorithm, no callback run,
\* under the scheduling asyncio gives: a loop whose `while` test can be made
\* makes it, an await whose operation can end does end (every I/O operation
\* completes or times out, a sleep is woken), and the clock goes on.
NextLive ==
    \/ \E l \in Loops : StartAwaited(l)
    \/ \E l \in Loops : Return(l)
    \/ \E l \in Loops : Steps(l)
    \/ Stop
    \/ \E t \in Instants : TickTo(t)

Fairness ==
    /\ \A l \in Loops : WF_vars(Return(l))
    /\ \A l \in Loops : WF_vars(Steps(l))
    /\ \A t \in Instants : WF_vars(TickTo(t))

SpecLive == InitOne /\ [][NextLive]_vars /\ Fairness

\* Any constructor call, and what the caller can do next: with no object
\* there is nothing to call start() or stop() on.
InitAnyArguments ==
    /\ \E email \in Emails, password \in Passwords, ids \in {<<>>, <<14>>} :
          Constructed(email, password, ids, "function")
    /\ now = 0
    /\ pc = [l \in Loops |-> "idle"]
    /\ wake = [l \in Loops |-> 0]
    /\ todo = [l \in Loops |-> <<>>]
    /\ tasks = <<>>
    /\ received = NoOutcome
    /\ joins = NoJoins
    /\ nSignals = 0
    /\ nCalls = 0
    /\ crit = FALSE
    /\ prev = ""

SpecConstruct == InitAnyArguments /\ [][NextLive]_vars

----------------------------------------------------------------------------
(* Properties *)

InHandler(l) == pc[l] \notin {"idle", "top"}

\* A run loop is at `while self.running` with the loop still on.
Dispatching == self.running /\ \E l \in Loops : pc[l] = "top"

\* C1: across any sequence of start() and stop() calls, at most one run loop
\* is inside a state handler at any time, so send and receive are never in
\* flight from two run loops at once.
C1_OneHandlerAtATime == Cardinality({l \in Loops : InHandler(l)}) <= 1

\* C2, as claimed: whenever the AUTHENTICATED handler starts opening the
\* transport with the token, the clock has not reached the expiry recorded
\* with it.
\* The handler does not look at the clock: the expiry is compared only in
\* RECONNECTING, one handler earlier.
C2_TokenFreshWhenUsed ==
    [][\A l \in Loops :
          (pc[l] = "top" /\ pc'[l] = "connect") => now < self.expiry]_vars

\* What the code does keep: the token is unexpired at the moment the machine
\* decides to use it.  Whenever the state becomes AUTHENTICATED a token is
\* held and now < expiry; INIT reaches AUTHENTICATED only with
\* expiry = now + 29 min; a RECONNECTING that runs at now >= expiry goes to
\* INIT.
TokenFreshWhenChosen ==
    [][/\ (self.state # "AUTHENTICATED" /\ self'.state = "AUTHENTICATED")
            => (self'.token # "None" /\ now < self'.expiry
                /\ self.state \in {"INIT", "RECONNECTING"})
       /\ (self.state = "INIT" /\ self'.state = "AUTHENTICATED")
            => self'.expiry = now + OAUTH_TIMEOUT
       /\ (self.state = "RECONNECTING" /\ self'.state # "RECONNECTING" /\ now >= self.expiry)
            => self'.state = "INIT"]_vars

\* The token of an earlier INIT has been chosen again by RECONNECTING.
TokenChosenAgain ==
    /\ prev = "RECONNECTING"
    /\ self.state = "AUTHENTICATED"
    /\ self.expiry < now + OAUTH_TIMEOUT

\* C3: a receive that finds the transport closed sets the state to
\* RECONNECTING, with no failure recorded and the ERROR handler not entered;
\* the state stays RECONNECTING until its handler runs, and that handler drops
\* the transport, keeps token, renew_token and expiry, and sets the state to
\* AUTHENTICATED if now < expiry and to INIT otherwise.
C3_ClosedTransportReconnects ==
    [][/\ received'.kind = "closed"
            => /\ self'.state = "RECONNECTING"
               /\ self'.last_exception = "None"
               /\ \A l \in Loops : pc'[l] # "err_sleep"
       /\ (self.state = "RECONNECTING" /\ self'.state # "RECONNECTING")
            => /\ Dispatching
               /\ prev' = "RECONNECTING"
               /\ self'.ws = "None"
               /\ self'.token = self.token
               /\ self'.renew_token = self.renew_token
               /\ self'.expiry = self.expiry
               /\ self'.state = IF now < self.expiry THEN "AUTHENTICATED" ELSE "INIT"]_vars

\* RECONNECTING has run on an expired token and handed over to INIT.
C3_Witness ==
    /\ prev = "RECONNECTING"
    /\ self.state = "INIT"
    /\ self.token # "None"
    /\ now >= self.expiry

\* C4: no id is sent more than one join in a pass of SUBSCRIBING, and when
\* SUBSCRIBING hands over to RECEIVING every entry of the SubscriptionSet is
\* true and exactly one join has been sent for each algorithm id.
C4_OneJoinEachThenReceiving ==
    [][/\ \A i \in AllIds : joins'[i] <= 1
       /\ (self.state = "SUBSCRIBING" /\ self'.state = "RECEIVING")
            => /\ AllSubscribed(self')
               /\ \A i \in AllIds :
                     joins'[i] = IF i \in Range(self.algo_ids) THEN 1 ELSE 0]_vars

\* Two ids were joined, a reply for an id nobody asked for came in between,
\* and the machine is in RECEIVING.
C4_Witness ==
    /\ prev = "SUBSCRIBING"
    /\ self.state = "RECEIVING"
    /\ Len(self.algo_ids) = 2
    /\ 17 \in DOMAIN self.subscribed

IsAlgoReply(f) ==
    f.channel[1] = "algorithms:" /\ IsInt(f.channel[2]) /\ f.method = "phx_reply"

\* C5: a phx_reply on an algorithms channel whose status is not "ok" leaves
\* the SubscriptionSet as it was and sets the state to ERROR.
C5_BadReplyJumpsToError ==
    [][(received'.kind = "frame" /\ IsAlgoReply(received'.frame)
            /\ received'.frame.status # "ok")
         => (self'.subscribed = self.subscribed /\ self'.state = "ERROR")]_vars

\* A bad subscription reply has just been received in RECEIVING.
C5_Witness ==
    /\ received.kind = "frame"
    /\ IsAlgoReply(received.frame)
    /\ received.frame.status # "ok"
    /\ prev = "RECEIVING"
    /\ self.state = "ERROR"

IsSignal(o) ==
    /\ o.kind = "frame"
    /\ o.frame.channel[1] = "algorithms:"
    /\ IsInt(o.frame.channel[2])
    /\ o.frame.method = "new_signals"

Scheduled(seq) == Len(SelectSeq(seq, LAMBDA k : k.st = "scheduled"))

\* What the code does with new_signals frames: a received new_signals frame
\* on "algorithms:<id>" creates exactly one task, for (id, payload), and
\* invokes nothing itself; no other step creates a task; the callback is
\* invoked only by running a scheduled task, once per task.
SignalsDispatchedAsTasks ==
    [][/\ IsSignal(received')
            => /\ tasks' = Append(tasks, [id |-> IntOf(received'.frame.channel[2]),
                                          info |-> received'.frame.payload,
                                          st |-> "scheduled"])
               /\ nCalls' = nCalls
       /\ ~IsSignal(received') => Scheduled(tasks') <= Scheduled(tasks)
       /\ nCalls' # nCalls
            => (nCalls' = nCalls + 1 /\ Scheduled(tasks') = Scheduled(tasks) - 1)
       /\ nSignals' = nCalls' + Scheduled(tasks')]_vars

\* The callback of an earlier new_signals frame has been invoked and has not
\* finished, and the receive loop has just received the next frame.
SignalCallbackOverlapsReceive ==
    /\ \E i \in 1..Len(tasks) : tasks[i].st = "running"
    /\ received.kind = "frame"
    /\ prev = "RECEIVING"
    /\ nCalls = 1

\* C6, as claimed: every invocation of the signal callback leaves the callback
\* in progress as a task of its own, so that the receive loop can take its
\* next step (receive a frame, go to STALE) before the callback has finished.
\* A callback that is a plain function has finished within the step that
\* invoked it: the receive loop waits for it.
C6_CallbackNeverHoldsTheLoop ==
    [][nCalls' # nCalls
         => \E i \in 1..Len(tasks') : tasks'[i].st = "running"]_vars

\* C7: stop() only clears `running`: the handler in progress goes on to its
\* return.  Once `running` is clear and the loop is back at its test, no
\* handler is invoked and nothing of the Connection changes: start() returns.
\* After it has returned, nothing (a further stop() included) changes the
\* Connection until start() is called again.
C7_StopIsCooperative ==
    [][/\ (self.running /\ ~self'.running)
            => /\ self' = [self EXCEPT !.running = FALSE]
               /\ <<pc, wake, todo, tasks, prev>>' = <<pc, wake, todo, tasks, prev>>
       /\ (~self.running /\ \E l \in Loops : pc[l] = "top")
            => /\ self' = self
               /\ prev' = prev
               /\ \A l \in Loops : pc'[l] \in {pc[l], "idle"}
       /\ (~self.running /\ \A l \in Loops : pc[l] = "idle")
            => (self' = self \/ self' = [self EXCEPT !.running = TRUE])]_vars

\* stop() was called while the AUTHENTICATED handler was opening the
\* transport: the handler finished, the CONNECTED handler was not invoked,
\* and start() has returned.
C7_Witness ==
    /\ \A l \in Loops : pc[l] = "idle"
    /\ ~self.running
    /\ prev = "AUTHENTICATED"
    /\ self.state = "CONNECTED"
    /\ self.ws = "ws"

\* C8: when the loop finds a state tag with no handler, its next move only
\* clears `running`: no handler is invoked, the state tag and everything else
\* stay, and the loop ends at its next test.  Once start() has returned, a
\* loop runs again only by a call of start().
C8_NoHandlerHalts ==
    [][/\ (Dispatching /\ self.state \notin HandlerTags
             /\ <<self, pc, crit, prev, tasks>>' # <<self, pc, crit, prev, tasks>>)
            => /\ self' = [self EXCEPT !.running = FALSE]
               /\ crit'
               /\ <<pc, wake, todo, tasks, prev, joins>>' = <<pc, wake, todo, tasks, prev, joins>>
       /\ ((\A l \in Loops : pc[l] = "idle") /\ pc' # pc)
            => (~self.running /\ self'.running)]_vars

\* The engine has found DONE, logged the fatal condition and returned.
C8_Witness ==
    /\ crit
    /\ \A l \in Loops : pc[l] = "idle"
    /\ ~self.running
    /\ self.state = "DONE"

\* C9: a failure in a handler is recorded in last_exception with the state
\* set to ERROR (seen on a failed receive, an undecodable frame and a failed
\* connect); the ERROR handler sleeps DEFAULT_ERROR_WAIT_TIME and returns
\* with the state INIT and no transport; so whenever the state is INIT, and
\* whenever the ERROR handler was the last to run, no transport is held.
C9_ErrorRecoversToInit ==
    [][/\ (received'.kind = "error"
           \/ (received'.kind = "frame" /\ received'.frame.channel[1] = "algorithms:"
                 /\ ~IsInt(received'.frame.channel[2]))
           \/ \E l \in Loops : pc[l] = "connect" /\ pc'[l] = "top" /\ self'.ws = "None")
            => (self'.last_exception = "Exception" /\ self'.state = "ERROR")
       /\ self'.last_exception = "Exception" => self'.state = "ERROR"
       /\ \A l \in Loops :
            /\ (pc[l] # "err_sleep" /\ pc'[l] = "err_sleep")
                 => wake'[l] = now + DEFAULT_ERROR_WAIT_TIME
            /\ (pc[l] = "err_sleep" /\ pc'[l] # "err_sleep")
                 => /\ now >= wake[l]
                    /\ self'.state = "INIT"
                    /\ self'.ws = "None"
                    /\ self'.last_exception = "None"
       /\ self'.state = "INIT" => self'.ws = "None"
       /\ (prev' = "ERROR" /\ \A l \in Loops : ~InHandler(l)')
            => (self'.state = "INIT" /\ self'.ws = "None")]_vars

\* A failure with the transport open went through ERROR: the machine is back
\* at INIT, about to run its handler, with the transport dropped.
C9_Witness ==
    /\ prev = "ERROR"
    /\ self.state = "INIT"
    /\ Dispatching
    /\ self.token # "None"
    /\ self.ws = "None"

\* C10, as claimed: in every state that receives on the open transport, a
\* receive attempt that ends, with the liveness deadline already passed, by
\* timing out is followed by the heartbeat (the state becomes STALE).
C10_HeartbeatWhenStale ==
    [][\A l \in Loops :
          (pc[l] \in {"sub_recv", "rcv_recv"} /\ self.ws # "None"
             /\ now >= self.stale_time /\ received'.kind = "timeout")
            => self'.state = "STALE"]_vars

\* C10 in RECEIVING alone, where the code does send the heartbeat.
HeartbeatWhenStaleReceiving ==
    [][\A l \in Loops :
          (pc[l] = "rcv_recv" /\ now >= self.stale_time /\ received'.kind = "timeout")
            => self'.state = "STALE"]_vars

\* C11, as claimed, for the SUBSCRIBING handler: once stop() has been called
\* while the handler waits for the reply to its join, the handler eventually
\* returns to the engine and start() returns.
C11_StopEndsSubscribing ==
    \A l \in Loops : (pc[l] = "sub_recv" /\ ~self.running) ~> (pc[l] = "idle")

\* The handlers that return after one operation do let stop() end the loop:
\* stop() called during the receive of RECEIVING.
StopEndsReceiving ==
    \A l \in Loops : (pc[l] = "rcv_recv" /\ ~self.running) ~> (pc[l] = "idle")

StateHasHandler == self.state \in HandlerTags

\* C13: a constructor call with an empty email, an empty password or no
\* algorithm id raises ValueError and leaves the caller without a Connection:
\* no run loop ever starts, no session is obtained, no transport is opened, no
\* handler runs.  With all three present the call raises nothing.
C13_ConstructionValidates ==
    /\ (ctor.email = "" \/ ctor.password = "" \/ ctor.algo_ids = <<>>)
         => /\ ctor.raised = "ValueError"
            /\ self = NoConnection
            /\ \A l \in Loops : pc[l] = "idle"
            /\ prev = ""
            /\ tasks = <<>>
    /\ (ctor.email \notin {"", "None"} /\ ctor.password \notin {"", "None"}
          /\ ctor.algo_ids # <<>>)
         => (ctor.raised = "None" /\ self # NoConnection
             /\ self.algo_ids = ctor.algo_ids)

\* The constructor was called with good credentials and no algorithm id, and
\* time has passed since.
C13_Witness ==
    /\ now > 0
    /\ ctor.email = "user@example.com"
    /\ ctor.password = "secret"
    /\ ctor.algo_ids = <<>>
    /\ ctor.raised = "ValueError"
    /\ self = NoConnection

Flag(sub, i) == i \in DOMAIN sub /\ sub[i]

\* C14: whenever the state tag is RECEIVING or STALE every entry of
\* `subscribed` is true; RECEIVING is entered only from SUBSCRIBING or from
\* STALE; a flag that is true stays true except in the reset of the CONNECTED
\* handler.
C14_ReceivingMeansSubscribed ==
    [][/\ self'.state \in {"RECEIVING", "STALE"} => AllSubscribed(self')
       /\ (self.state # "RECEIVING" /\ self'.state = "RECEIVING")
            => self.state \in {"SUBSCRIBING", "STALE"}
       /\ \A i \in DOMAIN self.subscribed :
            (Flag(self.subscribed, i) /\ ~Flag(self'.subscribed, i))
              => (self.state = "CONNECTED" /\ self'.state = "SUBSCRIBING")]_vars

\* The machine has subscribed to two algorithms, has sent a heartbeat and is
\* receiving again.
C14_Witness ==
    /\ self.state = "RECEIVING"
    /\ prev = "STALE"
    /\ self.algo_ids = <<14, 16>>
    /\ AllSubscribed(self)
    /\ \E l \in Loops : pc[l] = "rcv_recv"

\* The receive outcomes that end _recv by raising: a closed transport, a
\* failed receive, an algorithm topic that is no number, a reply whose status
\* is not ok.
Raising(o) ==
    \/ o.kind \in {"closed", "error"}
    \/ /\ o.kind = "frame"
       /\ \/ o.frame.channel[1] = "algorithms:" /\ ~IsInt(o.frame.channel[2])
          \/ /\ o.frame.channel[1] \in {"algorithms:", "phoenix"}
             /\ o.frame.method = "phx_reply"
             /\ o.frame.status # "ok"

Session(s) == <<s.token, s.renew_token, s.expiry>>

\* C15, as claimed: each run of the RECEIVING handler ends, after its one
\* receive attempt, with the state STALE if now >= stale_time and with the
\* state RECEIVING otherwise.
C15_StaleIffDeadlinePassed ==
    [][\A l \in Loops :
          (pc[l] = "rcv_recv" /\ pc'[l] # "rcv_recv")
            => (IF now >= self.stale_time
                THEN self'.state = "STALE"
                ELSE self'.state = "RECEIVING")]_vars

\* C15, amended: each run of the RECEIVING handler makes one receive attempt
\* and ends.  If the attempt raised, the state becomes RECONNECTING or ERROR
\* whatever the deadline; otherwise the state becomes STALE if
\* now >= stale_time and stays RECEIVING if not.  A timeout creates no task,
\* invokes no callback and leaves subscriptions, session and transport alone.
C15_StaleIffDeadlinePassedUnlessRaised ==
    [][\A l \in Loops :
          /\ (pc[l] = "top" /\ pc'[l] = "rcv_recv") => self' = self
          /\ (pc[l] = "rcv_recv" /\ pc'[l] # "rcv_recv")
               => /\ pc'[l] = "top"
                  /\ received'.kind # "none"
                  /\ Raising(received') => self'.state \in {"RECONNECTING", "ERROR"}
                  /\ ~Raising(received')
                       => (IF now >= self.stale_time
                           THEN self'.state = "STALE"
                           ELSE self'.state = "RECEIVING")
                  /\ received'.kind = "timeout"
                       => /\ tasks' = tasks
                          /\ nCalls' = nCalls
                          /\ self'.subscribed = self.subscribed
                          /\ Session(self') = Session(self)
                          /\ self'.ws = self.ws]_vars

\* A receive of RECEIVING has just timed out after the deadline: the state
\* is STALE and no task exists.
C15_Witness ==
    /\ received.kind = "timeout"
    /\ prev = "RECEIVING"
    /\ self.state = "STALE"
    /\ now >= self.stale_time
    /\ tasks = <<>>
    /\ \E l \in Loops : pc[l] = "top"

\* C16, as claimed: a receive attempt of SUBSCRIBING that ends, with the
\* subscription deadline passed and a subscription still unconfirmed, makes
\* the machine leave SUBSCRIBING for ERROR or RECONNECTING.
C16_SubscriptionDeadlineEnforced ==
    [][\A l \in Loops :
          (pc[l] = "sub_recv" /\ now >= self.subscription_deadline
             /\ received'.kind = "timeout" /\ ~AllSubscribed(self'))
            => self'.state \in {"ERROR", "RECONNECTING"}]_vars

\* What the code does with the deadline: the CONNECTED handler sets it to
\* now + SUBSCRIPTION_TIMEOUT and nothing else reads or writes it.
SubscriptionDeadlineInert ==
    [][self'.subscription_deadline # self.subscription_deadline
         => (self.state = "CONNECTED" /\ self'.state = "SUBSCRIBING"
             /\ self'.subscription_deadline = now + SUBSCRIPTION_TIMEOUT)]_vars

\* The frames C17 is about: a topic that is neither an algorithm channel nor
\* "phoenix"; an event other than phx_reply and new_signals on an algorithm
\* channel (phx_close among them); an event other than phx_reply on "phoenix";
\* an ok phx_reply on "phoenix".
NonFatal(f) ==
    \/ f.channel[1] \notin {"algorithms:", "phoenix"}
    \/ /\ f.channel[1] = "algorithms:"
       /\ IsInt(f.channel[2])
       /\ f.method \notin {"phx_reply", "new_signals"}
    \/ /\ f.channel[1] = "phoenix"
       /\ (f.method # "phx_reply" \/ f.status = "ok")

\* C17: wherever the machine waits on a receive, routing any of these frames
\* returns normally with the Connection as it was and no task created.  The
\* step that receives one records no failure, makes no jump, creates no task,
\* invokes no callback and leaves subscriptions, session and transport as
\* they were; the state tag moves only as the handler's own test after the
\* receive moves it (RECEIVING to STALE on a passed deadline, SUBSCRIBING to
\* RECEIVING with every subscription confirmed before).
C17_OtherFramesAreHarmless ==
    [][\A l \in Loops :
          pc[l] \in {"sub_recv", "rcv_recv"}
            => /\ \A f \in {g \in Frames : NonFatal(g)} :
                    _recv(self, Outcome("frame", f)) = Result(self, NoExc, <<>>)
               /\ (received'.kind = "frame" /\ NonFatal(received'.frame))
                    => /\ self'.last_exception = "None"
                       /\ self'.state \notin {"ERROR", "RECONNECTING"}
                       /\ self'.subscribed = self.subscribed
                       /\ Session(self') = Session(self)
                       /\ self'.ws = self.ws
                       /\ tasks' = tasks
                       /\ nCalls' = nCalls
                       /\ (pc[l] = "rcv_recv" /\ now < self.stale_time)
                            => self'.state = self.state
                       /\ (pc[l] = "rcv_recv" /\ self'.state # self.state)
                            => self'.state = "STALE"
                       /\ (pc[l] = "sub_recv" /\ self'.state # self.state)
                            => (AllSubscribed(self) /\ self'.state = "RECEIVING")]_vars

\* A frame of an unknown channel has just been received in RECEIVING before
\* the liveness deadline: the machine is still RECEIVING.
C17_Witness ==
    /\ received.kind = "frame"
    /\ received.frame.channel[1] = "room:"
    /\ prev = "RECEIVING"
    /\ self.state = "RECEIVING"
    /\ self.last_exception = "None"
    /\ \E l \in Loops : pc[l] = "top"

\* phx_close on a subscribed algorithm channel has just been received.
CloseFrameReceived ==
    /\ received.kind = "frame"
    /\ received.frame.method = "phx_close"
    /\ prev = "RECEIVING"
    /\ AllSubscribed(self)

\* Run loop l is about to call the handler of `tag`.
Calling(l, tag) == pc[l] = "top" /\ self.running /\ self.state = tag

IsOkAlgoReply(o) ==
    /\ o.kind = "frame"
    /\ IsAlgoReply(o.frame)
    /\ o.frame.status = "ok"

\* C18: token, renew_token and expiry change only in a step of the INIT or
\* the RECONNECTING handler.  `subscribed` changes only in two ways: the
\* CONNECTED handler resets it to false for every requested id, and it does
\* so every time it runs; the router sets the flag of the replying id to true
\* on an ok phx_reply of an algorithm channel.
C18_WhoChangesSessionAndSubscriptions ==
    [][/\ Session(self') # Session(self)
            => \E l \in Loops : Calling(l, "INIT") \/ Calling(l, "RECONNECTING")
       /\ self'.subscribed # self.subscribed
            => \/ \E l \in Loops : Calling(l, "CONNECTED")
               \/ /\ IsOkAlgoReply(received')
                  /\ self'.subscribed =
                        Subscribe(self.subscribed, IntOf(received'.frame.channel[2]))
       /\ (\E l \in Loops : Calling(l, "CONNECTED") /\ self' # self)
            => self'.subscribed = [i \in Range(self.algo_ids) |-> FALSE]]_vars

\* A reconnect: the CONNECTED handler has just run on a Connection that had
\* sent frames on an earlier transport, and every flag is false again.
C18_Witness ==
    /\ prev = "CONNECTED"
    /\ self.state = "SUBSCRIBING"
    /\ self.stale_time > DatetimeMin
    /\ \A i \in DOMAIN self.subscribed : ~self.subscribed[i]
    /\ \E l \in Loops : pc[l] = "top"

\* C19: the transport reference agrees with the state tag.  While the tag is
\* SUBSCRIBING, RECEIVING or STALE, and while a handler waits in a send or a
\* receive, ws is set; while the tag is AUTHENTICATED, up to the end of
\* websockets.connect, ws is None, so the new transport replaces none.
C19_TransportAgreesWithState ==
    /\ self.state \in {"SUBSCRIBING", "RECEIVING", "STALE"} => self.ws # "None"
    /\ \A l \in Loops :
          pc[l] \in {"sub_send", "sub_recv", "rcv_recv", "stale_send"} => self.ws # "None"
    /\ self.state = "AUTHENTICATED" => self.ws = "None"
    /\ \A l \in Loops : pc[l] = "connect" => self.ws = "None"

\* A transport is being opened after RECONNECTING gave up an earlier one on
\* which frames had been sent.
C19_Witness ==
    /\ prev = "RECONNECTING"
    /\ self.state = "AUTHENTICATED"
    /\ self.stale_time > DatetimeMin
    /\ self.ws = "None"
    /\ \E l \in Loops : pc[l] = "connect"

\* C20: the keys of `subscribed` are exactly the algorithm ids given to the
\* constructor, whatever frames have been received.
C20_SubscribedKeysAreTheRequestedIds ==
    DOMAIN self.subscribed = Range(self.algo_ids)

\* What does hold: the requested ids are always keys, and a key that was not
\* requested holds true and came from an ok reply for that id.
RequestedIdsAreKeys ==
    /\ Range(self.algo_ids) \subseteq DOMAIN self.subscribed
    /\ \A i \in DOMAIN self.subscribed \ Range(self.algo_ids) : self.subscribed[i]

\* An ok reply for an id that was not requested has just added its key.
UnrequestedKeyAdded ==
    /\ IsOkAlgoReply(received)
    /\ IntOf(received.frame.channel[2]) \notin Range(self.algo_ids)
    /\ IntOf(received.frame.channel[2]) \in DOMAIN self.subscribed

====
